---- MODULE Spec2Model ----
(***************************************************************************)
(* aiobuf: LogBuffer, TimedLogBuffer and MaxSizeLogBuffer                  *)
(* (src/aiobuf/buffer.py) with the formatter adapter of                    *)
(* src/aiobuf/format.py.                                                   *)
(*                                                                         *)
(* The buffer is an asyncio object.  Coroutines of one event loop are      *)
(* scheduled cooperatively: a task runs until it suspends, and it suspends *)
(* only in asyncio.sleep, in asyncio.wait_for, and in Lock.acquire when    *)
(* the lock is already held.  Awaiting a coroutine of the buffer itself    *)
(* (await self.flush(), await self(...)) and entering `async with` on a    *)
(* free lock do not suspend.  `running` is the task the event loop is      *)
(* executing; every statement is a step of its own, so the states inside   *)
(* the critical sections are states of the model.                          *)
(*                                                                         *)
(* Strings are sequences of Unicode code points.                           *)
(***************************************************************************)
EXTENDS Integers, Sequences, FiniteSets, TLC

\* ---------------------------------------------------------------- bounds
NumCallers == 2          \* tasks that call append / flush / close
MaxAppended == 2         \* messages accepted by an open buffer in one run
MaxFail == 1             \* sink invocations that raise in one run
MaxSize == 1             \* max_size the size-aware buffer is built with

\* ------------------------------------------------------------- constants
NL == 10                 \* '\n'

None == "None"
NoTask == -1             \* no task: the lock is free, the loop is between tasks
Driver == 0              \* the task running flush_loop
Callers == 1..NumCallers
Tasks == Callers \cup {Driver}

\* the inputs of the producers: "a", and "e-acute NL b" (4 bytes, 2 lines)
Msgs == { <<97>>, <<233, NL, 98>> }

\* '[flusher] maximum buffer size exceeded'
SizeMarker ==
  <<91, 102, 108, 117, 115, 104, 101, 114, 93, 32, 109, 97, 120, 105, 109,
    117, 109, 32, 98, 117, 102, 102, 101, 114, 32, 115, 105, 122, 101, 32,
    101, 120, 99, 101, 101, 100, 101, 100>>

\* '[flusher] maximum buffer time exceeded'
TimeMarker ==
  <<91, 102, 108, 117, 115, 104, 101, 114, 93, 32, 109, 97, 120, 105, 109,
    117, 109, 32, 98, 117, 102, 102, 101, 114, 32, 116, 105, 109, 101, 32,
    101, 120, 99, 101, 101, 100, 101, 100>>

VARIABLES
  variant,       \* "timed" (TimedLogBuffer) or "maxsize" (MaxSizeLogBuffer)
  formatter,     \* "None" or "timestamp": the formatter of the buffer
  sinkMayFail,   \* whether the sink fn of this run can raise
  buffer,        \* self._buffer
  open,          \* self._open
  size,          \* self._size
  SizeExceeded,  \* self.SizeExceeded (asyncio.Event) is set
  flush_lock,    \* self._flush_lock: NoTask when free, else the task holding it
  running,       \* the task the event loop is executing, NoTask between tasks
  pc,            \* position of every task
  ret,           \* where a task continues when its current call returns
  arg,           \* the message of a task's current append
  woken,         \* the driver's wait on SizeExceeded has been satisfied
  cause,         \* which branch of the size-aware loop the driver is in
  result,        \* how the call that ended in the last step ended
  snap,          \* the buffer state when a task's current call began
  atClose,       \* the buffer state when close() first took effect
  sinkCalls,     \* the argument of every invocation of fn, in call order
  batches,       \* the message list of every invocation of fn
  appended,      \* every message stored by an append, in lock order
  failures       \* number of sink invocations that raised

config == <<variant, formatter, sinkMayFail>>
state == <<buffer, open, size, SizeExceeded>>
history == <<sinkCalls, batches, appended, failures, atClose>>
vars == <<variant, formatter, sinkMayFail, buffer, open, size, SizeExceeded,
          flush_lock, running, pc, ret, arg, woken, cause, result, snap,
          atClose, sinkCalls, batches, appended, failures>>

\* ------------------------------------------------------ pure functions

\* len(c.encode('utf-8')) of one code point
Utf8Len(cp) ==
  IF cp < 128 THEN 1 ELSE IF cp < 2048 THEN 2 ELSE IF cp < 65536 THEN 3 ELSE 4

RECURSIVE EncodedLen(_)
\* len(message.encode('utf-8'))
EncodedLen(s) ==
  IF s = <<>> THEN 0 ELSE Utf8Len(Head(s)) + EncodedLen(Tail(s))

RECURSIVE Flatten(_)
\* the messages of a sequence of batches, in order
Flatten(bs) == IF bs = <<>> THEN <<>> ELSE Head(bs) \o Flatten(Tail(bs))

\* the lines run together with no separator between them
Join_nosep(lines) == Flatten(lines)

RECURSIVE Join(_)
\* '\n'.join(lines)
Join(lines) ==
  IF lines = <<>> THEN <<>>
  ELSE IF Len(lines) = 1 THEN lines[1]
  ELSE lines[1] \o <<NL>> \o Join(Tail(lines))

RECURSIVE Split(_)
\* s.split('\n')
Split(s) ==
  IF \A i \in 1..Len(s) : s[i] # NL THEN <<s>>
  ELSE LET i == CHOOSE k \in 1..Len(s) :
                  s[k] = NL /\ \A j \in 1..(k - 1) : s[j] # NL
       IN <<SubSeq(s, 1, i - 1)>> \o Split(SubSeq(s, i + 1, Len(s)))

\* the value time_fn() returns while the model runs
Now == [year |-> 2020, month |-> 2, day |-> 29,
        hour |-> 23, minute |-> 5, second |-> 9]

\* a number as two decimal digits, zero padded (%m %d %H %M %S)
Digits2(n) == <<48 + ((n \div 10) % 10), 48 + (n % 10)>>

\* a number as four decimal digits, zero padded (%Y)
Digits4(n) == Digits2(n \div 100) \o Digits2(n % 100)

\* format(t, '%Y-%m-%d %H:%M:%S')
strftime(t) ==
  Digits4(t.year) \o <<45>> \o Digits2(t.month) \o <<45>> \o Digits2(t.day)
    \o <<32>> \o Digits2(t.hour) \o <<58>> \o Digits2(t.minute) \o <<58>>
    \o Digits2(t.second)

\* timestamp_format(line): f'[{time_fn():{time_format}}]: {line}'
timestamp_format(line) == <<91>> \o strftime(Now) \o <<93, 58, 32>> \o line

\* format_message(message, formatter) for a str message
format_message(message) ==
  LET lines == Split(message)
  IN Join([i \in 1..Len(lines) |-> timestamp_format(lines[i])])

\* what __call__ stores for a message: lines 39-40 / 99-100
Formatted(message) ==
  IF formatter = None THEN message ELSE format_message(message)

RECURSIVE TotalLen(_)
\* sum(len(s.encode('utf-8')) for s in messages)
TotalLen(ms) ==
  IF ms = <<>> THEN 0 ELSE EncodedLen(Head(ms)) + TotalLen(Tail(ms))

\* ------------------------------------------------------------ the state

NoSnap == [buffer |-> <<>>, size |-> 0, SizeExceeded |-> FALSE,
           open |-> TRUE, calls |-> 0, op |-> None]

Snapshot(o) == [buffer |-> buffer, size |-> size,
                SizeExceeded |-> SizeExceeded, open |-> open,
                calls |-> Len(sinkCalls), op |-> o]

\* LogBuffer.__init__, TimedLogBuffer.__init__, MaxSizeLogBuffer.__init__;
\* the flush_loop task is created and the callers are idle
Init ==
  /\ variant \in {"timed", "maxsize"}
  /\ formatter \in {None, "timestamp"}
  /\ sinkMayFail \in BOOLEAN
  /\ buffer = <<>>
  /\ open = TRUE
  /\ size = 0
  /\ SizeExceeded = FALSE
  /\ flush_lock = NoTask
  /\ running = NoTask
  /\ pc = [t \in Tasks |-> IF t = Driver THEN "start" ELSE "idle"]
  /\ ret = [t \in Tasks |-> IF t = Driver THEN "start" ELSE "caller_end"]
  /\ arg = [t \in Tasks |-> <<>>]
  /\ woken = FALSE
  /\ cause = None
  /\ result = None
  /\ snap = [t \in Tasks |-> NoSnap]
  /\ atClose = NoSnap
  /\ sinkCalls = <<>>
  /\ batches = <<>>
  /\ appended = <<>>
  /\ failures = 0

\* a call of task t returns normally with outcome r
Return(t, r) ==
  /\ pc' = [pc EXCEPT ![t] = ret[t]]
  /\ result' = r
  /\ arg' = [arg EXCEPT ![t] = <<>>]
  /\ snap' = [snap EXCEPT ![t] = NoSnap]
  /\ UNCHANGED running

\* an exception e leaves the call of task t: it ends a caller's call, and
\* nothing in flush_loop catches it
Raise(t, e) ==
  /\ pc' = [pc EXCEPT ![t] = IF t = Driver THEN "raise" ELSE "caller_end"]
  /\ result' = e
  /\ arg' = [arg EXCEPT ![t] = <<>>]
  /\ snap' = [snap EXCEPT ![t] = NoSnap]
  /\ UNCHANGED running

\* ------------------------------------------------- scheduling of a task

\* task t is the one the event loop is executing
Runs(t) == running = t

\* the event loop is between tasks and picks a ready one
Idle == running = NoTask

\* ------------------------------------------------------------- the lock

\* `async with self._flush_lock` (lines 34, 41, 48, 101, 130): Lock.acquire
\* takes a free lock without suspending; on a held lock the task suspends
\* and retries when the event loop runs it again
Acquire(t, at, next) ==
  /\ pc[t] = at
  /\ \/ /\ flush_lock = NoTask
        /\ Runs(t) \/ Idle
        /\ flush_lock' = t
        /\ running' = t
        /\ pc' = [pc EXCEPT ![t] = next]
     \/ /\ flush_lock # NoTask
        /\ Runs(t)
        /\ running' = NoTask
        /\ UNCHANGED <<flush_lock, pc>>
  /\ UNCHANGED <<config, state, history, ret, arg, woken, cause, result,
                 snap>>

\* ------------------------------------------------------------- __call__

\* lines 39-40 / 99-100: the formatter, when one is configured
call_format(t) ==
  /\ Runs(t) /\ pc[t] = "call_format"
  /\ arg' = [arg EXCEPT ![t] = Formatted(arg[t])]
  /\ pc' = [pc EXCEPT ![t] = "call_lock"]
  /\ UNCHANGED <<config, state, history, flush_lock, running, ret, woken,
                 cause, result, snap>>

\* lines 41 / 101
call_lock(t) == Acquire(t, "call_lock", "call_open")

\* an append that stores the message before it raises on a closed buffer
call_open_late(t) ==
  /\ Runs(t) /\ pc[t] = "call_open"
  /\ buffer' = IF open THEN buffer ELSE Append(buffer, arg[t])
  /\ IF ~open
       THEN /\ flush_lock' = NoTask
            /\ Raise(t, "BufferClosedError")
       ELSE /\ pc' = [pc EXCEPT ![t] = "call_append"]
            /\ UNCHANGED <<flush_lock, running, result, snap, arg>>
  /\ UNCHANGED <<config, open, size, SizeExceeded, history, ret, woken, cause>>

\* lines 42-44 / 102-104: a closed buffer raises, which releases the lock
call_open(t) ==
  /\ Runs(t) /\ pc[t] = "call_open"
  /\ IF ~open
       THEN /\ flush_lock' = NoTask
            /\ Raise(t, "BufferClosedError")
       ELSE /\ pc' = [pc EXCEPT ![t] = "call_append"]
            /\ UNCHANGED <<flush_lock, running, result, snap, arg>>
  /\ UNCHANGED <<config, state, history, ret, woken, cause>>

\* lines 45 / 105: self._buffer.append(message)
call_append(t) ==
  /\ Runs(t) /\ pc[t] = "call_append"
  /\ buffer' = Append(buffer, arg[t])
  /\ appended' = Append(appended, arg[t])
  /\ pc' = [pc EXCEPT ![t] = IF variant = "maxsize" THEN "call_size"
                              ELSE "call_exit"]
  /\ UNCHANGED <<config, open, size, SizeExceeded, sinkCalls, batches,
                 failures, atClose, flush_lock, running, ret, arg, woken,
                 cause, result, snap>>

\* a running total that counts code points instead of UTF-8 bytes
call_size_codepoints(t) ==
  /\ Runs(t) /\ pc[t] = "call_size"
  /\ size' = size + Len(arg[t])
  /\ pc' = [pc EXCEPT ![t] = "call_exit"]
  /\ UNCHANGED <<config, buffer, open, SizeExceeded, history, flush_lock,
                 running, ret, arg, woken, cause, result, snap>>

\* line 106: self._size += len(message.encode('utf-8'))
call_size(t) ==
  /\ Runs(t) /\ pc[t] = "call_size"
  /\ size' = size + EncodedLen(arg[t])
  /\ pc' = [pc EXCEPT ![t] = "call_exit"]
  /\ UNCHANGED <<config, buffer, open, SizeExceeded, history, flush_lock,
                 running, ret, arg, woken, cause, result, snap>>

\* the end of the `async with` block: the lock is released; LogBuffer's
\* __call__ then returns, MaxSizeLogBuffer's goes on to line 107
call_exit(t) ==
  /\ Runs(t) /\ pc[t] = "call_exit"
  /\ flush_lock' = NoTask
  /\ IF variant = "maxsize"
       THEN /\ pc' = [pc EXCEPT ![t] = "call_notify"]
            /\ UNCHANGED <<running, result, snap, arg>>
       ELSE Return(t, "ok")
  /\ UNCHANGED <<config, state, history, ret, woken, cause>>

\* a threshold test that also fires on reaching max_size exactly
call_notify_at_max(t) ==
  /\ Runs(t) /\ pc[t] = "call_notify"
  /\ IF size >= MaxSize
       THEN /\ SizeExceeded' = TRUE
            /\ woken' = (woken \/ pc[Driver] = "wait")
       ELSE UNCHANGED <<SizeExceeded, woken>>
  /\ Return(t, "ok")
  /\ UNCHANGED <<config, buffer, open, size, history, flush_lock, ret,
                 cause>>

\* lines 107-108: outside the lock, set the event when the total exceeds
\* max_size; Event.set() satisfies the wait of a driver blocked on it
call_notify(t) ==
  /\ Runs(t) /\ pc[t] = "call_notify"
  /\ IF size > MaxSize
       THEN /\ SizeExceeded' = TRUE
            /\ woken' = (woken \/ pc[Driver] = "wait")
       ELSE UNCHANGED <<SizeExceeded, woken>>
  /\ Return(t, "ok")
  /\ UNCHANGED <<config, buffer, open, size, history, flush_lock, ret,
                 cause>>

\* ---------------------------------------------------------------- flush

\* a flush without the emptiness test
flush_check_always(t) ==
  /\ Runs(t) /\ pc[t] = "flush_check"
  /\ pc' = [pc EXCEPT ![t] = "flush_lock"]
  /\ UNCHANGED <<running, result, snap, arg>>
  /\ UNCHANGED <<config, state, history, flush_lock, ret, woken, cause>>

\* lines 32-33 / 128-129: an empty buffer returns before the lock
flush_check(t) ==
  /\ Runs(t) /\ pc[t] = "flush_check"
  /\ IF buffer = <<>>
       THEN Return(t, "ok")
       ELSE /\ pc' = [pc EXCEPT ![t] = "flush_lock"]
            /\ UNCHANGED <<running, result, snap, arg>>
  /\ UNCHANGED <<config, state, history, flush_lock, ret, woken, cause>>

\* a flush that enters its body without taking the lock
flush_acquire_nolock(t) ==
  /\ Runs(t) /\ pc[t] = "flush_lock"
  /\ pc' = [pc EXCEPT ![t] = "flush_fn"]
  /\ UNCHANGED <<config, state, history, flush_lock, running, ret, arg,
                 woken, cause, result, snap>>

\* lines 34 / 130
flush_acquire(t) == Acquire(t, "flush_lock", "flush_fn")

\* the outcomes of one invocation of the sink
SinkOutcomes ==
  {TRUE} \cup (IF sinkMayFail /\ failures < MaxFail THEN {FALSE} ELSE {})

\* a flush that discards the pending messages when the sink raises
flush_fn_drop_on_failure(t) ==
  /\ Runs(t) /\ pc[t] = "flush_fn"
  /\ sinkCalls' = Append(sinkCalls, Join(buffer))
  /\ batches' = Append(batches, buffer)
  /\ \E ok \in SinkOutcomes :
       IF ok
         THEN /\ pc' = [pc EXCEPT ![t] = "flush_clear"]
              /\ UNCHANGED <<flush_lock, running, result, snap, arg,
                             failures, buffer>>
         ELSE /\ failures' = failures + 1
              /\ buffer' = <<>>
              /\ flush_lock' = NoTask
              /\ Raise(t, "SinkError")
  /\ UNCHANGED <<config, open, size, SizeExceeded, appended, atClose, ret,
                 woken, cause>>

\* lines 35 / 131: self._fn('\n'.join(self._buffer)); an exception of the
\* sink leaves the `async with` block, which releases the lock
flush_fn(t) ==
  /\ Runs(t) /\ pc[t] = "flush_fn"
  /\ sinkCalls' = Append(sinkCalls, Join(buffer))
  /\ batches' = Append(batches, buffer)
  /\ \E ok \in SinkOutcomes :
       IF ok
         THEN /\ pc' = [pc EXCEPT ![t] = "flush_clear"]
              /\ UNCHANGED <<flush_lock, running, result, snap, arg,
                             failures>>
         ELSE /\ failures' = failures + 1
              /\ flush_lock' = NoTask
              /\ Raise(t, "SinkError")
  /\ UNCHANGED <<config, state, appended, atClose, ret, woken, cause>>

\* a drain that drops only the oldest message
flush_clear_partial(t) ==
  /\ Runs(t) /\ pc[t] = "flush_clear"
  /\ buffer' = Tail(buffer)
  /\ pc' = [pc EXCEPT ![t] = IF variant = "maxsize" THEN "flush_reset"
                              ELSE "flush_exit"]
  /\ UNCHANGED <<config, open, size, SizeExceeded, history, flush_lock,
                 running, ret, arg, woken, cause, result, snap>>

\* lines 36 / 132: self._buffer = []
flush_clear(t) ==
  /\ Runs(t) /\ pc[t] = "flush_clear"
  /\ buffer' = <<>>
  /\ pc' = [pc EXCEPT ![t] = IF variant = "maxsize" THEN "flush_reset"
                              ELSE "flush_exit"]
  /\ UNCHANGED <<config, open, size, SizeExceeded, history, flush_lock,
                 running, ret, arg, woken, cause, result, snap>>

\* a reset after which the event is not cleared
flush_reset_keep_event(t) ==
  /\ Runs(t) /\ pc[t] = "flush_reset"
  /\ size' = 0
  /\ pc' = [pc EXCEPT ![t] = "flush_exit"]
  /\ UNCHANGED <<config, buffer, open, SizeExceeded, history, flush_lock,
                 running, ret, arg, woken, cause, result, snap>>

\* line 133: self._size = 0
flush_reset(t) ==
  /\ Runs(t) /\ pc[t] = "flush_reset"
  /\ size' = 0
  /\ pc' = [pc EXCEPT ![t] = "flush_event_clear"]
  /\ UNCHANGED <<config, buffer, open, SizeExceeded, history, flush_lock,
                 running, ret, arg, woken, cause, result, snap>>

\* line 134: self.SizeExceeded.clear()
flush_event_clear(t) ==
  /\ Runs(t) /\ pc[t] = "flush_event_clear"
  /\ SizeExceeded' = FALSE
  /\ pc' = [pc EXCEPT ![t] = "flush_exit"]
  /\ UNCHANGED <<config, buffer, open, size, history, flush_lock, running,
                 ret, arg, woken, cause, result, snap>>

\* the end of the `async with` block of flush
flush_exit(t) ==
  /\ Runs(t) /\ pc[t] = "flush_exit"
  /\ flush_lock' = NoTask
  /\ Return(t, "ok")
  /\ UNCHANGED <<config, state, history, ret, woken, cause>>

\* ---------------------------------------------------------------- close

\* line 48
close_lock(t) == Acquire(t, "close_lock", "close_set")

\* a close that flips the flag instead of clearing it
close_set_toggle(t) ==
  /\ Runs(t) /\ pc[t] = "close_set"
  /\ open' = ~open
  /\ atClose' = IF open THEN Snapshot("close") ELSE atClose
  /\ flush_lock' = NoTask
  /\ Return(t, "ok")
  /\ UNCHANGED <<config, buffer, size, SizeExceeded, sinkCalls, batches,
                 appended, failures, ret, woken, cause>>

\* line 49 and the end of the `async with` block
close_set(t) ==
  /\ Runs(t) /\ pc[t] = "close_set"
  /\ open' = FALSE
  /\ atClose' = IF open THEN Snapshot("close") ELSE atClose
  /\ flush_lock' = NoTask
  /\ Return(t, "ok")
  /\ UNCHANGED <<config, buffer, size, SizeExceeded, sinkCalls, batches,
                 appended, failures, ret, woken, cause>>

\* ------------------------------------------------ entering an operation

\* task t begins `await self(message)`; it continues at r when it returns
EnterCall(t, message, r) ==
  /\ pc' = [pc EXCEPT ![t] = "call_format"]
  /\ arg' = [arg EXCEPT ![t] = message]
  /\ ret' = [ret EXCEPT ![t] = r]
  /\ result' = None
  /\ snap' = [snap EXCEPT ![t] = Snapshot("call")]

\* task t begins `await self.flush()`; it continues at r when it returns
EnterFlush(t, r) ==
  /\ pc' = [pc EXCEPT ![t] = "flush_check"]
  /\ ret' = [ret EXCEPT ![t] = r]
  /\ result' = None
  /\ snap' = [snap EXCEPT ![t] = Snapshot("flush")]

\* an open buffer has room for one more message in this run
Room == open => Len(appended) < MaxAppended

\* a producer task calls the buffer with a message
call(c, message) ==
  /\ Idle /\ pc[c] = "idle" /\ Room
  /\ EnterCall(c, message, "caller_end")
  /\ running' = c
  /\ UNCHANGED <<config, state, history, flush_lock, woken, cause>>

\* a task calls flush()
flush(c) ==
  /\ Idle /\ pc[c] = "idle"
  /\ EnterFlush(c, "caller_end")
  /\ running' = c
  /\ UNCHANGED <<config, state, history, flush_lock, arg, woken, cause>>

\* a task calls close()
close(c) ==
  /\ Idle /\ pc[c] = "idle"
  /\ pc' = [pc EXCEPT ![c] = "close_lock"]
  /\ ret' = [ret EXCEPT ![c] = "caller_end"]
  /\ result' = None
  /\ snap' = [snap EXCEPT ![c] = Snapshot("close")]
  /\ running' = c
  /\ UNCHANGED <<config, state, history, flush_lock, arg, woken, cause>>

\* the caller has the outcome of its call; its task ends
caller_end(c) ==
  /\ Runs(c) /\ pc[c] = "caller_end"
  /\ pc' = [pc EXCEPT ![c] = "idle"]
  /\ result' = None
  /\ running' = NoTask
  /\ UNCHANGED <<config, state, history, flush_lock, ret, arg, woken, cause,
                 snap>>

\* ----------------------------------------------------------- flush_loop

\* the event loop runs the flush_loop task for the first time
flush_loop_start ==
  /\ Idle /\ pc[Driver] = "start"
  /\ pc' = [pc EXCEPT ![Driver] = "loop_test"]
  /\ running' = Driver
  /\ UNCHANGED <<config, state, history, flush_lock, ret, arg, woken, cause,
                 result, snap>>

\* a timed loop that only sleeps while the buffer is open
timed_loop_test_no_periodic_flush ==
  /\ variant = "timed"
  /\ Runs(Driver) /\ pc[Driver] = "loop_test"
  /\ IF open
       THEN /\ pc' = [pc EXCEPT ![Driver] = "sleep"]
            /\ result' = "ok"
            /\ UNCHANGED <<ret, snap>>
       ELSE EnterFlush(Driver, "return")
  /\ UNCHANGED <<config, state, history, flush_lock, running, arg, woken,
                 cause>>

\* a timed loop that returns without the flush after the loop
timed_loop_test_no_final_flush ==
  /\ variant = "timed"
  /\ Runs(Driver) /\ pc[Driver] = "loop_test"
  /\ IF open
       THEN EnterFlush(Driver, "sleep")
       ELSE /\ pc' = [pc EXCEPT ![Driver] = "return"]
            /\ result' = "ok"
            /\ UNCHANGED <<ret, snap>>
  /\ UNCHANGED <<config, state, history, flush_lock, running, arg, woken,
                 cause>>

\* TimedLogBuffer.flush_loop, lines 73-74 and 76: `while self._open`, then
\* the flush of the loop body or the flush after the loop
timed_loop_test ==
  /\ variant = "timed"
  /\ Runs(Driver) /\ pc[Driver] = "loop_test"
  /\ EnterFlush(Driver, IF open THEN "sleep" ELSE "return")
  /\ UNCHANGED <<config, state, history, flush_lock, running, arg, woken,
                 cause>>

\* line 75: await asyncio.sleep(self._buffer_time) suspends the driver
timed_loop_sleep ==
  /\ Runs(Driver) /\ pc[Driver] = "sleep"
  /\ pc' = [pc EXCEPT ![Driver] = "sleeping"]
  /\ result' = None
  /\ running' = NoTask
  /\ UNCHANGED <<config, state, history, flush_lock, ret, arg, woken, cause,
                 snap>>

\* line 75: the sleep has elapsed and the event loop resumes the driver
timed_loop_wake ==
  /\ Idle /\ pc[Driver] = "sleeping"
  /\ pc' = [pc EXCEPT ![Driver] = "loop_test"]
  /\ running' = Driver
  /\ UNCHANGED <<config, state, history, flush_lock, ret, arg, woken, cause,
                 result, snap>>

\* MaxSizeLogBuffer.flush_loop, lines 116-119 and 125: `while self._open`,
\* then the wait for the event with a timeout, or the flush after the loop;
\* a wait on an event that is already set is satisfied at once
maxsize_loop_test ==
  /\ variant = "maxsize"
  /\ Runs(Driver) /\ pc[Driver] = "loop_test"
  /\ cause' = None
  /\ IF open
       THEN /\ pc' = [pc EXCEPT ![Driver] = "wait"]
            /\ woken' = SizeExceeded
            /\ running' = NoTask
            /\ result' = None
            /\ UNCHANGED <<ret, snap>>
       ELSE /\ EnterFlush(Driver, "return")
            /\ UNCHANGED <<running, woken>>
  /\ UNCHANGED <<config, state, history, flush_lock, arg>>

\* a signal branch that appends the marker of the timeout branch
maxsize_loop_signal_time_marker ==
  /\ Idle /\ pc[Driver] = "wait" /\ woken /\ Room
  /\ EnterCall(Driver, TimeMarker, "loop_flush")
  /\ cause' = "size"
  /\ woken' = FALSE
  /\ running' = Driver
  /\ UNCHANGED <<config, state, history, flush_lock>>

\* lines 118-120: the wait was satisfied by the event; the driver appends
\* the size marker through __call__
maxsize_loop_signal ==
  /\ Idle /\ pc[Driver] = "wait" /\ woken /\ Room
  /\ EnterCall(Driver, SizeMarker, "loop_flush")
  /\ cause' = "size"
  /\ woken' = FALSE
  /\ running' = Driver
  /\ UNCHANGED <<config, state, history, flush_lock>>

\* a timeout branch that goes to the flush without appending a marker
maxsize_loop_timeout_no_marker ==
  /\ Idle /\ pc[Driver] = "wait" /\ Room
  /\ pc' = [pc EXCEPT ![Driver] = "loop_flush"]
  /\ ret' = [ret EXCEPT ![Driver] = "loop_flush"]
  /\ result' = "ok"
  /\ cause' = "time"
  /\ woken' = FALSE
  /\ running' = Driver
  /\ UNCHANGED <<config, state, history, flush_lock, arg, snap>>

\* lines 121-122: wait_for raised TimeoutError; the driver appends the time
\* marker through __call__
maxsize_loop_timeout ==
  /\ Idle /\ pc[Driver] = "wait" /\ Room
  /\ EnterCall(Driver, TimeMarker, "loop_flush")
  /\ cause' = "time"
  /\ woken' = FALSE
  /\ running' = Driver
  /\ UNCHANGED <<config, state, history, flush_lock>>

\* line 124: the flush of the loop body, then back to `while self._open`
maxsize_loop_flush ==
  /\ Runs(Driver) /\ pc[Driver] = "loop_flush"
  /\ EnterFlush(Driver, "loop_test")
  /\ UNCHANGED <<config, state, history, flush_lock, running, arg, woken,
                 cause>>

\* lines 76 / 125 have returned: flush_loop returns and its task ends
flush_loop_return ==
  /\ Runs(Driver) /\ pc[Driver] = "return"
  /\ pc' = [pc EXCEPT ![Driver] = "done"]
  /\ result' = None
  /\ running' = NoTask
  /\ UNCHANGED <<config, state, history, flush_lock, ret, arg, woken, cause,
                 snap>>

\* an exception of flush() or __call__ leaves flush_loop: its task ends
\* with that exception
flush_loop_raise ==
  /\ Runs(Driver) /\ pc[Driver] = "raise"
  /\ pc' = [pc EXCEPT ![Driver] = "error"]
  /\ running' = NoTask
  /\ UNCHANGED <<config, state, history, flush_lock, ret, arg, woken, cause,
                 result, snap>>

\* -------------------------------------------------------------- __del__

\* a teardown that never reports
del_silent ==
  /\ Idle /\ pc[Driver] \in {"done", "error"}
  /\ \A c \in Callers : pc[c] = "idle"
  /\ pc' = [t \in Tasks |-> IF t = Driver THEN pc[t] ELSE "deleted"]
  /\ result' = None
  /\ UNCHANGED <<config, state, history, flush_lock, running, ret, arg,
                 woken, cause, snap>>

\* lines 51-55: the buffer is deconstructed when nothing refers to it any
\* more: flush_loop has ended and no caller is inside a call or will make
\* another one; __del__ raises BufferNotFlushedError when _buffer is not
\* empty
__del__ ==
  /\ Idle /\ pc[Driver] \in {"done", "error"}
  /\ \A c \in Callers : pc[c] = "idle"
  /\ pc' = [t \in Tasks |-> IF t = Driver THEN pc[t] ELSE "deleted"]
  /\ result' = IF buffer # <<>> THEN "BufferNotFlushedError" ELSE None
  /\ UNCHANGED <<config, state, history, flush_lock, running, ret, arg,
                 woken, cause, snap>>

\* -------------------------------------------------------- specification

Next ==
  \/ \E c \in Callers, message \in Msgs : call(c, message)
  \/ \E c \in Callers : flush(c)
  \/ \E c \in Callers : close(c)
  \/ \E c \in Callers : caller_end(c)
  \/ \E t \in Tasks : call_format(t)
  \/ \E t \in Tasks : call_lock(t)
  \/ \E t \in Tasks : call_open(t)
  \/ \E t \in Tasks : call_append(t)
  \/ \E t \in Tasks : call_size(t)
  \/ \E t \in Tasks : call_exit(t)
  \/ \E t \in Tasks : call_notify(t)
  \/ \E t \in Tasks : flush_check(t)
  \/ \E t \in Tasks : flush_acquire(t)
  \/ \E t \in Tasks : flush_fn(t)
  \/ \E t \in Tasks : flush_clear(t)
  \/ \E t \in Tasks : flush_reset(t)
  \/ \E t \in Tasks : flush_event_clear(t)
  \/ \E t \in Tasks : flush_exit(t)
  \/ \E t \in Tasks : close_lock(t)
  \/ \E t \in Tasks : close_set(t)
  \/ flush_loop_start
  \/ timed_loop_test
  \/ timed_loop_sleep
  \/ timed_loop_wake
  \/ maxsize_loop_test
  \/ maxsize_loop_signal
  \/ maxsize_loop_timeout
  \/ maxsize_loop_flush
  \/ flush_loop_return
  \/ flush_loop_raise
  \/ __del__

Spec == Init /\ [][Next]_vars

\* a statement of the task the event loop is executing
RunningStep ==
  \/ \E t \in Tasks :
       \/ call_format(t) \/ call_lock(t) \/ call_open(t) \/ call_append(t)
       \/ call_size(t) \/ call_exit(t) \/ call_notify(t)
       \/ flush_check(t) \/ flush_acquire(t) \/ flush_fn(t)
       \/ flush_clear(t) \/ flush_reset(t) \/ flush_event_clear(t)
       \/ flush_exit(t)
       \/ close_lock(t) \/ close_set(t)
  \/ \E c \in Callers : caller_end(c)
  \/ timed_loop_test \/ timed_loop_sleep
  \/ maxsize_loop_test \/ maxsize_loop_flush
  \/ flush_loop_return \/ flush_loop_raise

\* the event loop resumes the flush_loop task: it is started, its sleep
\* elapses, its wait is satisfied or times out
DriverResume ==
  \/ flush_loop_start \/ timed_loop_wake
  \/ maxsize_loop_signal \/ maxsize_loop_timeout

\* a buffer built with a sink that does not raise
FairInit == Init /\ ~sinkMayFail

\* the sink of the run does not raise; the running task runs on; the event
\* loop runs every ready task, however often other tasks become ready
FairSpec ==
  /\ FairInit
  /\ [][Next]_vars
  /\ WF_vars(RunningStep)
  /\ SF_vars(DriverResume)

\* ================================================================ claims

\* positions inside __call__ and inside flush
CallPcs == {"call_format", "call_lock", "call_open", "call_append",
            "call_size", "call_exit", "call_notify"}
FlushPcs == {"flush_check", "flush_lock", "flush_fn", "flush_clear",
             "flush_reset", "flush_event_clear", "flush_exit"}

\* the call of task t that is in progress ends with this step
CallEnds(t) == pc[t] \in CallPcs /\ pc'[t] \notin CallPcs
FlushEnds(t) == pc[t] \in FlushPcs /\ pc'[t] \notin FlushPcs

\* the last n elements of a sequence
LastN(s, n) == SubSeq(s, Len(s) - n + 1, Len(s))

\* b is a with one element added at the end
ExtendsByOne(a, b) == Len(b) = Len(a) + 1 /\ SubSeq(b, 1, Len(a)) = a

RECURSIVE Offset(_, _)
\* where message i starts in the newline-joined text of ms, counted from 0
Offset(ms, i) ==
  IF i = 1 THEN 0 ELSE Offset(ms, i - 1) + Len(ms[i - 1]) + 1

\* text is exactly the messages ms in order with one newline between
\* neighbours
IsJoined(text, ms) ==
  /\ Len(ms) >= 1
  /\ Len(text) = Offset(ms, Len(ms)) + Len(ms[Len(ms)])
  /\ \A i \in 1..Len(ms) :
       /\ SubSeq(text, Offset(ms, i) + 1, Offset(ms, i) + Len(ms[i])) = ms[i]
       /\ i < Len(ms) => text[Offset(ms, i) + Len(ms[i]) + 1] = NL

\* C1: with a sink that does not fail, in every state the messages of all
\* batches handed to the sink so far, in call order, followed by the pending
\* messages are exactly the messages stored by the appends, in the order the
\* appends took the lock (a batch that the sink has just received and the
\* same flush has not yet drained counts once); and every step leaves
\* pending as it is, extends it by one message, or replaces it by the empty
\* sequence.
C1_NoLossNoDuplicateNoReorder ==
  /\ [](failures = 0 =>
          IF \E t \in Tasks : pc[t] = "flush_clear"
            THEN Flatten(batches) = appended /\ buffer = batches[Len(batches)]
            ELSE Flatten(batches) \o buffer = appended)
  /\ [][buffer' = buffer \/ buffer' = <<>> \/ ExtendsByOne(buffer, buffer')]_vars

\* a batch has been delivered and a different message is pending
C1_Witness ==
  /\ failures = 0 /\ flush_lock = NoTask
  /\ Len(batches) = 1 /\ Len(buffer) = 1
  /\ batches[1] # buffer

\* C2: a flush() that begins with n >= 1 pending messages A1..An (the last n
\* stored appends) and returns has invoked the sink exactly once, with
\* A1..An joined by newline in append order, and leaves pending empty.
C2_FlushDeliversJoinedBatch ==
  [][\A t \in Tasks :
       (FlushEnds(t) /\ result' = "ok" /\ snap[t].buffer # <<>>) =>
          LET n == Len(snap[t].buffer)
          IN /\ Len(sinkCalls') = snap[t].calls + 1
             /\ IsJoined(sinkCalls'[Len(sinkCalls')], LastN(appended, n))
             /\ buffer' = <<>>]_vars

\* a flush is about to return after delivering a batch of two or more
\* messages, one of which contains a newline of its own
C2_Witness ==
  \E t \in Tasks :
    /\ pc[t] = "flush_exit"
    /\ Len(snap[t].buffer) >= 2
    /\ \E i \in 1..Len(snap[t].buffer) : Len(Split(snap[t].buffer[i])) > 1
    /\ buffer = <<>>

\* C3: the sink is only ever invoked with at least one pending message, and
\* a flush() that finds pending empty returns without invoking the sink and
\* without changing pending, isOpen, pendingByteSize, sizeExceeded or the
\* lock; no flush is ever suspended waiting for the lock.
C3_EmptyFlushNeverCallsSink ==
  /\ [](\A t \in Tasks : pc[t] = "flush_lock" => Runs(t) /\ buffer # <<>>)
  /\ [][/\ sinkCalls' # sinkCalls => buffer # <<>>
        /\ \A t \in Tasks :
             (pc[t] = "flush_check" /\ buffer = <<>> /\ FlushEnds(t)) =>
               /\ sinkCalls' = sinkCalls
               /\ UNCHANGED <<state, flush_lock>>
               /\ result' = "ok"]_vars

\* the timed driver's flush has returned on a buffer nothing was ever
\* appended to, and the sink has not been invoked
C3_Witness ==
  /\ variant = "timed" /\ pc[Driver] = "sleep" /\ result = "ok"
  /\ appended = <<>> /\ buffer = <<>> /\ sinkCalls = <<>>

\* C4: an append that begins on a closed buffer changes nothing in any of
\* its steps (pending, isOpen, pendingByteSize, sizeExceeded, the stored
\* appends) and ends by raising BufferClosedError, in both variants.
C4_AppendAfterCloseFails ==
  [][\A t \in Tasks :
       (pc[t] \in CallPcs /\ ~snap[t].open /\ Runs(t)) =>
          /\ UNCHANGED <<state, appended>>
          /\ CallEnds(t) => result' = "BufferClosedError"]_vars

\* a producer's append has just been rejected by a closed size-aware buffer
\* that still holds messages
C4_Witness ==
  /\ \E c \in Callers : pc[c] = "caller_end" /\ result = "BufferClosedError"
  /\ variant = "maxsize" /\ ~open /\ size > 0 /\ buffer # <<>>

\* C5: once a time-only buffer is closed, under fair scheduling and with a
\* sink that does not raise, the driver eventually ends normally; every
\* flush the driver begins on a closed buffer is the one after the loop, and
\* nothing follows it but the return of flush_loop; when the driver has
\* ended, pending is empty, every stored message has been passed to the
\* sink, and the messages pending when close() took effect went to the sink
\* in exactly one call, the only call made after close().
C5_TimedDriverShutdown ==
  /\ (variant = "timed" /\ ~open) ~> (pc[Driver] = "done")
  /\ [](variant = "timed" /\ pc[Driver] = "done" =>
          /\ ~open /\ buffer = <<>>
          /\ Flatten(batches) = appended
          /\ IF atClose.buffer = <<>>
               THEN Len(batches) = atClose.calls
               ELSE /\ Len(batches) = atClose.calls + 1
                    /\ batches[Len(batches)] = atClose.buffer)
  /\ [](variant = "timed" /\ ret[Driver] = "return" =>
          pc[Driver] \in FlushPcs \cup {"return", "done"})
  /\ [][(/\ variant = "timed" /\ ~open
         /\ pc[Driver] # "flush_check" /\ pc'[Driver] = "flush_check")
          => ret'[Driver] = "return"]_vars

\* the timed driver has ended after close() found two messages pending,
\* which went to the sink in one call
C5_Witness ==
  /\ variant = "timed" /\ pc[Driver] = "done"
  /\ Len(atClose.buffer) = 2
  /\ Len(batches) = atClose.calls + 1
  /\ batches[Len(batches)] = atClose.buffer

\* C6: the driver of a size-aware buffer whose sink has not raised never
\* ends with an error, and when it has ended pending is empty and every
\* stored message has been passed to the sink.
C6_SizeAwareDriverShutdown ==
  (variant = "maxsize" /\ failures = 0) =>
    /\ pc[Driver] \notin {"raise", "error"}
    /\ pc[Driver] = "done" => (buffer = <<>> /\ Flatten(batches) = appended)

\* the marker line of a branch of the size-aware loop
Marker(c) == IF c = "size" THEN SizeMarker ELSE TimeMarker

\* C7: in the size-aware loop, from the moment the marker append has returned
\* until the sink is invoked by the flush of the same iteration, pending is
\* non-empty and its last entry is the (formatted) marker of the branch that
\* woke the driver: the size marker after the event, the time marker after
\* the timeout; and the batch that flush hands to the sink ends with that
\* marker, whether or not the sink then raises.
C7_LoopBatchEndsWithMarker ==
  variant = "maxsize" =>
    /\ (\/ pc[Driver] = "loop_flush"
        \/ /\ ret[Driver] = "loop_test"
           /\ pc[Driver] \in {"flush_check", "flush_lock", "flush_fn"})
         => /\ cause \in {"size", "time"}
            /\ buffer # <<>>
            /\ buffer[Len(buffer)] = Formatted(Marker(cause))
    /\ (/\ ret[Driver] = "loop_test"
        /\ \/ pc[Driver] \in {"flush_clear", "flush_reset",
                             "flush_event_clear", "flush_exit"}
           \/ pc[Driver] = "raise" /\ result = "SinkError")
         => /\ cause \in {"size", "time"}
            /\ batches # <<>>
            /\ LET b == batches[Len(batches)]
               IN b # <<>> /\ b[Len(b)] = Formatted(Marker(cause))

\* the driver, woken by the event, has handed the sink a batch of a
\* producer's message followed by the size marker
C7_Witness ==
  /\ variant = "maxsize" /\ cause = "size"
  /\ pc[Driver] = "flush_clear" /\ ret[Driver] = "loop_test"
  /\ Len(batches[Len(batches)]) >= 2

\* C8: every flush() of a size-aware buffer that returns, whether it found
\* pending empty or drained it, returns with the running total 0 and the
\* event cleared.
C8_FlushResetsSizeAndEvent ==
  [][\A t \in Tasks :
       (variant = "maxsize" /\ FlushEnds(t) /\ result' = "ok") =>
          size' = 0 /\ ~SizeExceeded']_vars

\* the flush of a loop iteration that the event woke has just returned
C8_Witness ==
  /\ variant = "maxsize" /\ cause = "size"
  /\ pc[Driver] = "loop_test" /\ ret[Driver] = "loop_test"
  /\ Runs(Driver) /\ result = "ok"
  /\ size = 0 /\ ~SizeExceeded

\* C9: whenever the lock of a size-aware buffer is free, the running total
\* is non-negative and is the sum of the UTF-8 lengths of the pending
\* messages.
C9_SizeTracksPending ==
  (variant = "maxsize" /\ flush_lock = NoTask) =>
    size >= 0 /\ size = TotalLen(buffer)

\* the driver's marker append has released the lock with two messages
\* pending, one of them with a character of more than one byte
C9_Witness ==
  /\ variant = "maxsize" /\ flush_lock = NoTask
  /\ pc[Driver] = "call_notify"
  /\ Len(buffer) >= 2
  /\ \E i \in 1..Len(buffer) : EncodedLen(buffer[i]) # Len(buffer[i])

\* positions at which the code is inside an `async with self._flush_lock`
LockPcs == {"call_open", "call_append", "call_size", "call_exit",
            "flush_fn", "flush_clear", "flush_reset", "flush_event_clear",
            "flush_exit", "close_set"}
FlushCS == {"flush_fn", "flush_clear", "flush_reset", "flush_event_clear",
            "flush_exit"}

\* C10: a task inside an `async with` block holds the lock, so at most one
\* task is inside one; while a flush is inside its block it is the running
\* task and no other task is inside an append or a close; the sink is
\* invoked only by a step of the flush that holds the lock; and while a
\* flush holds the lock isOpen does not change and pending changes only by
\* that flush emptying it.
C10_MutualExclusion ==
  /\ [](\A t \in Tasks : pc[t] \in LockPcs => flush_lock = t)
  /\ [](\A t \in Tasks : pc[t] \in FlushCS =>
          /\ running = t
          /\ \A u \in Tasks \ {t} : pc[u] \notin LockPcs)
  /\ [][sinkCalls' # sinkCalls =>
          /\ Len(sinkCalls') = Len(sinkCalls) + 1
          /\ \E t \in Tasks : flush_lock = t /\ pc[t] = "flush_fn"]_vars
  /\ [][(\E t \in Tasks : flush_lock = t /\ pc[t] \in FlushCS) =>
          /\ open' = open
          /\ \/ buffer' = buffer
             \/ pc[flush_lock] = "flush_clear" /\ buffer' = <<>>]_vars

\* a caller's flush holds the lock after its sink call while the driver,
\* whose wait has been satisfied, is ready to run
C10_Witness ==
  /\ variant = "maxsize" /\ pc[Driver] = "wait" /\ woken
  /\ \E c \in Callers : pc[c] = "flush_clear" /\ flush_lock = c

\* the first k stored messages have been passed to the sink, in order
Delivered(k) ==
  LET d == Flatten(batches)
  IN Len(d) >= k /\ SubSeq(d, 1, k) = SubSeq(appended, 1, k)

\* C11: on a time-only buffer, under fair scheduling and with a sink that
\* does not raise, every stored message is eventually passed to the sink;
\* the driver returns only from a closed buffer and never ends with an
\* error.
C11_TimedDriverDelivers ==
  /\ \A k \in 1..MaxAppended :
       (variant = "timed" /\ Len(appended) >= k) ~> Delivered(k)
  /\ [](variant = "timed" =>
          /\ pc[Driver] \in {"return", "done"} => ~open
          /\ pc[Driver] \notin {"raise", "error"})

\* the periodic flush of the timed driver has handed the sink every stored
\* message while the buffer is still open
C11_Witness ==
  /\ variant = "timed" /\ open
  /\ pc[Driver] = "flush_clear" /\ ret[Driver] = "sleep"
  /\ appended # <<>> /\ Delivered(Len(appended))

\* positions inside close
ClosePcs == {"close_lock", "close_set"}

\* C12: no step of a close() changes pending, the running total, the event
\* or what the sink has received; a close() returns normally with the buffer
\* closed and the lock free; a close() of a buffer that is already closed
\* changes nothing of the buffer; and no step of any operation opens a
\* closed buffer.
C12_CloseChangesOnlyOpen ==
  [][/\ ~open => ~open'
     /\ \A t \in Tasks :
          (Runs(t) /\ pc[t] \in ClosePcs) =>
             /\ UNCHANGED <<buffer, size, SizeExceeded, sinkCalls, batches,
                            appended>>
             /\ ~snap[t].open => UNCHANGED <<state, atClose>>
             /\ pc'[t] \notin ClosePcs =>
                  ~open' /\ flush_lock' = NoTask /\ result' = "ok"]_vars

\* a close() has just returned on a size-aware buffer that still holds
\* messages and whose event is set
C12_Witness ==
  /\ variant = "maxsize" /\ ~open /\ buffer # <<>> /\ SizeExceeded /\ size > 0
  /\ sinkCalls = <<>>
  /\ \E c \in Callers : pc[c] = "caller_end" /\ result = "ok"

\* the buffer has been deconstructed
Deleted == \A c \in Callers : pc[c] = "deleted"

\* C13: the deconstruction of a buffer raises BufferNotFlushedError exactly
\* when messages are pending at that moment, and raises nothing else; an
\* empty buffer, open or closed, is deconstructed silently.
C13_DelReportsPending ==
  Deleted =>
    /\ result \in {None, "BufferNotFlushedError"}
    /\ result = "BufferNotFlushedError" <=> buffer # <<>>

\* a closed size-aware buffer whose driver ended with an error has been
\* deconstructed with messages pending
C13_Witness ==
  /\ Deleted /\ pc[Driver] = "error" /\ ~open
  /\ buffer # <<>> /\ result = "BufferNotFlushedError"

\* an open buffer with nothing pending has been deconstructed silently
C13_WitnessOpenEmpty == Deleted /\ open /\ buffer = <<>> /\ result = None

\* no task is inside an append
NoAppendInProgress == \A t \in Tasks : pc[t] \notin CallPcs

\* C14, as stated: in every state of a size-aware buffer in which no append
\* is in progress, the event is set exactly when the running total is
\* greater than max_size.
C14_EventReflectsSize ==
  (variant = "maxsize" /\ NoAppendInProgress) =>
    (SizeExceeded <=> size > MaxSize)

\* C14, amended: in every state of a size-aware buffer in which no append
\* is in progress and no flush stands between resetting the running total
\* and clearing the event, the event is set exactly when the running total
\* is greater than max_size.
C14_EventReflectsSizeOutsideReset ==
  (/\ variant = "maxsize" /\ NoAppendInProgress
   /\ \A t \in Tasks : pc[t] # "flush_event_clear") =>
    (SizeExceeded <=> size > MaxSize)

\* an append has just returned with the running total exactly at max_size
\* and the event not set
C14_Witness ==
  /\ variant = "maxsize" /\ NoAppendInProgress
  /\ buffer # <<>> /\ size = MaxSize /\ ~SizeExceeded
  /\ \E c \in Callers : pc[c] = "caller_end" /\ result = "ok"

\* C15: a flush() whose sink call raises ends with that exception after
\* exactly one invocation of the sink, with the lock free and with pending,
\* the running total, the event and isOpen as they were when it began, the
\* batch the sink refused still pending; a later flush() that returns has
\* handed the sink everything pending when it began; and a flush_loop that
\* an exception has left does nothing more: it ends with the error, without
\* another flush.
C15_SinkFailurePropagates ==
  [][/\ \A t \in Tasks :
          (FlushEnds(t) /\ result' = "SinkError") =>
             /\ flush_lock' = NoTask
             /\ buffer' = snap[t].buffer /\ buffer' # <<>>
             /\ size' = snap[t].size
             /\ SizeExceeded' = snap[t].SizeExceeded
             /\ open' = snap[t].open
             /\ Len(sinkCalls') = snap[t].calls + 1
             /\ batches'[Len(batches')] = buffer'
             /\ pc'[t] = IF t = Driver THEN "raise" ELSE "caller_end"
     /\ \A t \in Tasks :
          (FlushEnds(t) /\ result' = "ok" /\ snap[t].buffer # <<>>) =>
             /\ batches'[Len(batches')] = snap[t].buffer
             /\ buffer' = <<>>
     /\ pc[Driver] = "raise" => pc'[Driver] \in {"raise", "error"}
     /\ pc[Driver] = "error" => pc'[Driver] = "error"]_vars

\* the driver's flush failed and ended flush_loop; a caller's later flush
\* has handed the sink the same batch, and nothing is pending
C15_Witness ==
  /\ variant = "timed" /\ failures = 1 /\ pc[Driver] = "error"
  /\ Len(batches) = 2 /\ batches[1] = batches[2]
  /\ buffer = <<>>

\* the driver is inside the flush of a loop iteration (line 124)
InLoopFlush == ret[Driver] = "loop_test" /\ pc[Driver] \in FlushPcs

\* C16: in the size-aware loop, a marker append that begins on an open
\* buffer returns normally and the driver goes straight on to the flush of
\* the iteration; that flush begins with pending non-empty, and when it
\* ends, by returning or by the sink's exception, the sink has been invoked
\* exactly once since it began, with the newline-joined batch that was
\* pending, which contains the marker of the iteration.
C16_LoopFlushDeliversMarker ==
  [][/\ (Runs(Driver) /\ pc[Driver] \in CallPcs /\ snap[Driver].open
         /\ CallEnds(Driver))
          => result' = "ok" /\ pc'[Driver] = "loop_flush"
     /\ pc[Driver] = "loop_flush"
          => pc'[Driver] \in {"loop_flush", "flush_check"}
     /\ (InLoopFlush /\ FlushEnds(Driver)) =>
          /\ snap[Driver].buffer # <<>>
          /\ Len(sinkCalls') = snap[Driver].calls + 1
          /\ batches'[Len(batches')] = snap[Driver].buffer
          /\ IsJoined(sinkCalls'[Len(sinkCalls')], snap[Driver].buffer)
          /\ \E i \in 1..Len(snap[Driver].buffer) :
               snap[Driver].buffer[i] = Formatted(Marker(cause))]_vars

\* no producer has appended anything: the flush of a timeout iteration has
\* handed the sink a batch of the time marker alone
C16_Witness ==
  /\ variant = "maxsize" /\ cause = "time"
  /\ pc[Driver] = "flush_clear" /\ ret[Driver] = "loop_test"
  /\ appended = <<Formatted(TimeMarker)>>
  /\ batches = <<appended>>

====
